---- MODULE Spec2Model ----
(***************************************************************************)
(* Model of aicommit: the Go command (cmd.runCommit with the git, llm and  *)
(* prompt packages) and the PowerShell function aicommit.  Strings are     *)
(* sequences of one-character strings, so that splitting, trimming and     *)
(* prefix tests are computed as the code computes them.                    *)
(***************************************************************************)
EXTENDS Integers, Sequences, FiniteSets, TLC

\* ------------------------------------------------------------------------
\* Bounds of the model
\* ------------------------------------------------------------------------
MaxEdits == 2
MaxDescLines == 2
MaxEffects == 5
MaxTextLen == 4
MaxBound == 3
MaxLines == 3

\* ------------------------------------------------------------------------
\* Program constants
\* ------------------------------------------------------------------------
MaxHeaderLen == 72

NL == <<"\n">>
HEADER == <<"H", "E", "A", "D", "E", "R", ":">>
DESCRIPTION == <<"D", "E", "S", "C", "R", "I", "P", "T", "I", "O", "N", ":">>

\* ------------------------------------------------------------------------
\* Go package strings
\* ------------------------------------------------------------------------
\* With(e, F) is F applied to the value of e, computed once: TLC evaluates
\* a LET definition anew at each use when it computes ENABLED.
With(e, F(_)) == CHOOSE r \in {F(v) : v \in {e}} : TRUE

IsSpace(c) == c \in {" ", "\t", "\n", "\r"}

RECURSIVE TrimLeft(_)
TrimLeft(s) ==
  IF s # <<>> /\ IsSpace(Head(s)) THEN TrimLeft(Tail(s)) ELSE s

RECURSIVE TrimRight(_)
TrimRight(s) ==
  IF s # <<>> /\ IsSpace(s[Len(s)]) THEN TrimRight(SubSeq(s, 1, Len(s) - 1)) ELSE s

TrimSpace(s) == TrimRight(TrimLeft(s))

HasPrefix(s, p) == Len(s) >= Len(p) /\ SubSeq(s, 1, Len(p)) = p

TrimPrefix(s, p) == IF HasPrefix(s, p) THEN SubSeq(s, Len(p) + 1, Len(s)) ELSE s

RECURSIVE Split(_, _)
Split(str, sep) ==
  With(str, LAMBDA s : With({k \in 1..Len(s) : s[k] = sep}, LAMBDA seps :
    IF seps = {} THEN <<s>>
    ELSE With(CHOOSE k \in seps : \A j \in seps : k <= j, LAMBDA i :
           With(Split(SubSeq(s, i + 1, Len(s)), sep), LAMBDA rest :
             <<SubSeq(s, 1, i - 1)>> \o rest))))

RECURSIVE Join(_, _)
Join(elems, sep) ==
  With(elems, LAMBDA ls :
    IF ls = <<>> THEN <<>>
    ELSE IF Len(ls) = 1 THEN ls[1]
    ELSE ls[1] \o sep \o Join(Tail(ls), sep))

\* ------------------------------------------------------------------------
\* package llm: CommitMessage, Format, ParseResponse
\* ------------------------------------------------------------------------
CommitMessage(h, d) == [Header |-> h, Description |-> d]

NilMessage == CommitMessage(<<>>, <<>>)

\* Mutant: the description follows the header without a blank line.
FormatSingleNewline(c) ==
  IF c.Description = <<>> THEN c.Header
  ELSE c.Header \o <<"\n">> \o c.Description

\* Mutant: the blank line and the description are written even when empty.
FormatAlwaysJoins(c) == c.Header \o <<"\n", "\n">> \o c.Description

Format(c) ==
  IF c.Description = <<>> THEN c.Header
  ELSE c.Header \o <<"\n", "\n">> \o c.Description

\* Mutant: a field that is already set is not assigned again.
RECURSIVE ParseLinesFirstWins(_, _, _)
ParseLinesFirstWins(lines, header, description) ==
  IF lines = <<>> THEN [header |-> header, description |-> description]
  ELSE LET line == TrimSpace(Head(lines)) IN
       IF HasPrefix(line, HEADER)
       THEN ParseLinesFirstWins(Tail(lines),
              IF header = <<>> THEN TrimSpace(TrimPrefix(line, HEADER)) ELSE header,
              description)
       ELSE IF HasPrefix(line, DESCRIPTION)
       THEN ParseLinesFirstWins(Tail(lines), header,
              IF description = <<>> THEN TrimSpace(TrimPrefix(line, DESCRIPTION))
              ELSE description)
       ELSE ParseLinesFirstWins(Tail(lines), header, description)

RECURSIVE ParseLines(_, _, _)
ParseLines(lines, header, description) ==
  IF lines = <<>> THEN [header |-> header, description |-> description]
  ELSE LET line == TrimSpace(Head(lines)) IN
       IF HasPrefix(line, HEADER)
       THEN ParseLines(Tail(lines), TrimSpace(TrimPrefix(line, HEADER)), description)
       ELSE IF HasPrefix(line, DESCRIPTION)
       THEN ParseLines(Tail(lines), header, TrimSpace(TrimPrefix(line, DESCRIPTION)))
       ELSE ParseLines(Tail(lines), header, description)

\* Mutant: a description alone is enough for a message.
ParseResponseDescriptionOnly(response) ==
  LET r == ParseLines(Split(response, "\n"), <<>>, <<>>) IN
  IF r.header = <<>> /\ r.description = <<>>
  THEN [ok |-> FALSE, msg |-> NilMessage]
  ELSE [ok |-> TRUE,
        msg |-> CommitMessage(IF Len(r.header) > MaxHeaderLen
                              THEN SubSeq(r.header, 1, MaxHeaderLen)
                              ELSE r.header,
                              r.description)]

\* Mutant: the missing-header check is gone.
ParseResponseUnchecked(response) ==
  LET r == ParseLines(Split(response, "\n"), <<>>, <<>>) IN
  [ok |-> TRUE, msg |-> CommitMessage(r.header, r.description)]

ParseResponse(response) ==
  LET r == ParseLines(Split(response, "\n"), <<>>, <<>>) IN
  IF r.header = <<>>
  THEN [ok |-> FALSE, msg |-> NilMessage]
  ELSE [ok |-> TRUE,
        msg |-> CommitMessage(IF Len(r.header) > MaxHeaderLen
                              THEN SubSeq(r.header, 1, MaxHeaderLen)
                              ELSE r.header,
                              r.description)]

TruncationMarker ==
  <<"\n", ".", ".", ".", " ", "(", "d", "i", "f", "f", " ", "t", "r", "u", "n", "c", "a", "t", "e", "d", ")">>

DefaultMaxDiffLength == 30000
MaxDiffLengths == {20, DefaultMaxDiffLength}

\* llm.TruncateDiff: diff is the sequence of bytes of the Go string.
TruncateDiff(diff, maxLength) ==
  IF Len(diff) <= maxLength THEN diff
  ELSE SubSeq(diff, 1, maxLength) \o TruncationMarker

\* ------------------------------------------------------------------------
\* package llm: the constructors of the three clients
\* ------------------------------------------------------------------------
ModelsPrefix == <<"m", "o", "d", "e", "l", "s", "/">>

\* validModels of isClaudeModel, isOpenAIModel and isGeminiModel.
ClaudeModels ==
  <<<<"c", "l", "a", "u", "d", "e", "-", "o", "p", "u", "s", "-", "4", "-", "5", "-", "2", "0", "2", "5", "1", "1", "0", "1">>,
    <<"c", "l", "a", "u", "d", "e", "-", "s", "o", "n", "n", "e", "t", "-", "4", "-", "5", "-", "2", "0", "2", "5", "0", "9", "2", "9">>,
    <<"c", "l", "a", "u", "d", "e", "-", "h", "a", "i", "k", "u", "-", "4", "-", "5", "-", "2", "0", "2", "5", "1", "0", "0", "1">>,
    <<"c", "l", "a", "u", "d", "e", "-", "o", "p", "u", "s", "-", "4", "-", "1", "-", "2", "0", "2", "5", "0", "8", "0", "5">>,
    <<"c", "l", "a", "u", "d", "e", "-", "s", "o", "n", "n", "e", "t", "-", "4", "-", "2", "0", "2", "5", "0", "5", "2", "2">>,
    <<"c", "l", "a", "u", "d", "e", "-", "3", "-", "o", "p", "u", "s", "-", "2", "0", "2", "4", "0", "2", "2", "9">>,
    <<"c", "l", "a", "u", "d", "e", "-", "3", "-", "s", "o", "n", "n", "e", "t", "-", "2", "0", "2", "4", "0", "2", "2", "9">>,
    <<"c", "l", "a", "u", "d", "e", "-", "3", "-", "5", "-", "s", "o", "n", "n", "e", "t", "-", "2", "0", "2", "4", "0", "6", "2", "0">>,
    <<"c", "l", "a", "u", "d", "e", "-", "3", "-", "h", "a", "i", "k", "u", "-", "2", "0", "2", "4", "0", "3", "0", "7">>,
    <<"c", "l", "a", "u", "d", "e", "-", "3", "-", "5", "-", "h", "a", "i", "k", "u", "-", "2", "0", "2", "4", "1", "0", "2", "2">>>>

OpenAIModels ==
  <<<<"g", "p", "t", "-", "5", ".", "1">>,
    <<"g", "p", "t", "-", "5">>,
    <<"g", "p", "t", "-", "5", "-", "m", "i", "n", "i">>,
    <<"g", "p", "t", "-", "5", "-", "n", "a", "n", "o">>,
    <<"g", "p", "t", "-", "4", ".", "1">>,
    <<"g", "p", "t", "-", "4", ".", "1", "-", "m", "i", "n", "i">>,
    <<"g", "p", "t", "-", "4", ".", "1", "-", "n", "a", "n", "o">>,
    <<"g", "p", "t", "-", "4">>,
    <<"g", "p", "t", "-", "4", "-", "t", "u", "r", "b", "o">>,
    <<"g", "p", "t", "-", "4", "-", "t", "u", "r", "b", "o", "-", "p", "r", "e", "v", "i", "e", "w">>,
    <<"g", "p", "t", "-", "4", "-", "0", "1", "2", "5", "-", "p", "r", "e", "v", "i", "e", "w">>,
    <<"g", "p", "t", "-", "4", "-", "1", "1", "0", "6", "-", "p", "r", "e", "v", "i", "e", "w">>,
    <<"g", "p", "t", "-", "3", ".", "5", "-", "t", "u", "r", "b", "o">>,
    <<"g", "p", "t", "-", "3", ".", "5", "-", "t", "u", "r", "b", "o", "-", "0", "1", "2", "5">>,
    <<"g", "p", "t", "-", "3", ".", "5", "-", "t", "u", "r", "b", "o", "-", "1", "1", "0", "6">>>>

GeminiModels ==
  <<<<"g", "e", "m", "i", "n", "i", "-", "2", ".", "5", "-", "p", "r", "o">>,
    <<"g", "e", "m", "i", "n", "i", "-", "2", ".", "5", "-", "f", "l", "a", "s", "h">>,
    <<"g", "e", "m", "i", "n", "i", "-", "2", ".", "5", "-", "f", "l", "a", "s", "h", "-", "l", "i", "t", "e">>,
    <<"g", "e", "m", "i", "n", "i", "-", "2", ".", "0", "-", "f", "l", "a", "s", "h">>,
    <<"g", "e", "m", "i", "n", "i", "-", "1", ".", "5", "-", "p", "r", "o">>,
    <<"g", "e", "m", "i", "n", "i", "-", "1", ".", "5", "-", "f", "l", "a", "s", "h">>,
    <<"g", "e", "m", "i", "n", "i", "-", "p", "r", "o">>,
    <<"g", "e", "m", "i", "n", "i", "-", "p", "r", "o", "-", "v", "i", "s", "i", "o", "n">>>>

isClaudeModel(model) ==
  \E i \in DOMAIN ClaudeModels : model = ClaudeModels[i]

NewAnthropicClient(key, model) ==
  IF key = "" THEN [ok |-> FALSE, model |-> <<>>]
  ELSE [ok |-> TRUE,
        model |-> IF model = <<>> \/ ~isClaudeModel(model)
                  THEN <<"c", "l", "a", "u", "d", "e", "-", "h", "a", "i", "k", "u", "-", "4", "-", "5", "-", "2", "0", "2", "5", "1", "0", "0", "1">>
                  ELSE model]

\* Mutant: the model must be one of the names of the list.
isOpenAIModelExact(model) ==
  \E i \in DOMAIN OpenAIModels : model = OpenAIModels[i]

isOpenAIModel(model) ==
  \E i \in DOMAIN OpenAIModels : HasPrefix(model, OpenAIModels[i])

NewOpenAIClient(key, model) ==
  IF key = "" THEN [ok |-> FALSE, model |-> <<>>]
  ELSE [ok |-> TRUE,
        model |-> IF model = <<>> \/ ~isOpenAIModel(model)
                  THEN <<"g", "p", "t", "-", "5", "-", "m", "i", "n", "i">>
                  ELSE model]

isGeminiModel(model) ==
  \E i \in DOMAIN GeminiModels : TrimPrefix(model, ModelsPrefix) = GeminiModels[i]

NewGeminiClient(key, model) ==
  IF key = "" THEN [ok |-> FALSE, model |-> <<>>]
  ELSE LET chosen == IF model = <<>> \/ ~isGeminiModel(model)
                     THEN <<"g", "e", "m", "i", "n", "i", "-", "2", ".", "5", "-", "f", "l", "a", "s", "h">>
                     ELSE model
       IN  [ok |-> TRUE,
            model |-> IF HasPrefix(chosen, ModelsPrefix) THEN chosen
                      ELSE ModelsPrefix \o chosen]

\* strings.ToLower on the letters of a model or provider name.
ToLower(s) ==
  LET upper == <<"A", "B", "C", "D", "E", "F", "G", "H", "I", "J", "K", "L", "M", "N", "O", "P", "Q", "R", "S", "T", "U", "V", "W", "X", "Y", "Z">>
      lower == <<"a", "b", "c", "d", "e", "f", "g", "h", "i", "j", "k", "l", "m", "n", "o", "p", "q", "r", "s", "t", "u", "v", "w", "x", "y", "z">>
  IN  [i \in DOMAIN s |->
         IF \E k \in DOMAIN upper : upper[k] = s[i]
         THEN lower[CHOOSE k \in DOMAIN upper : upper[k] = s[i]]
         ELSE s[i]]

\* strings.Contains
Contains(s, substr) ==
  \E i \in 0..(Len(s) - Len(substr)) : SubSeq(s, i + 1, i + Len(substr)) = substr

\* Mutant: the fragments are looked for in the name as it is written.
DetectProviderCaseSensitive(model) ==
  CASE Contains(model, <<"c", "l", "a", "u", "d", "e">>) -> "anthropic"
    [] Contains(model, <<"g", "e", "m", "i", "n", "i">>) -> "gemini"
    [] Contains(model, <<"g", "p", "t">>) -> "openai"
    [] OTHER -> "gemini"

\* The switch of NewClient: the first case that matches decides.
DetectProvider(model) ==
  LET modelLower == ToLower(model) IN
  IF Contains(modelLower, <<"c", "l", "a", "u", "d", "e">>) THEN "anthropic"
  ELSE IF Contains(modelLower, <<"g", "e", "m", "i", "n", "i">>) THEN "gemini"
  ELSE IF Contains(modelLower, <<"g", "p", "t">>) THEN "openai"
  ELSE "gemini"

\* llm.NewClient: an empty key fails before the name is looked at; the
\* client holds the key it was given and the model its constructor chose.
NewClient(model, key) ==
  IF key = "" THEN [ok |-> FALSE, backend |-> "", model |-> <<>>, key |-> ""]
  ELSE LET backend == DetectProvider(model)
           made == CASE backend = "anthropic" -> NewAnthropicClient(key, model)
                     [] backend = "openai" -> NewOpenAIClient(key, model)
                     [] OTHER -> NewGeminiClient(key, model)
       IN  [ok |-> made.ok, backend |-> backend, model |-> made.model, key |-> key]

\* A response body as encoding/json decodes it: kind "garbage" is not
\* JSON; message is error.message ("" when absent); items is the
\* completion array (content, choices or candidates; <<>> when absent),
\* each item the texts it carries (one text, or the parts of a candidate).
Body(kind, message, items) == [kind |-> kind, message |-> message, items |-> items]

NoBody == Body("", "", <<>>)

\* What GenerateCommitMessage returns: the error it built (with the text
\* it shows: the message of the envelope, or the status and the body), or
\* the result of ParseResponse on the text it was called with.
Outcome(kind, message, status, body, parsed) ==
  [kind |-> kind, message |-> message, status |-> status, body |-> body,
   parsed |-> parsed,
   suggestion |-> IF parsed = <<>> THEN [ok |-> FALSE, msg |-> NilMessage]
                  ELSE ParseResponse(parsed[1])]

\* http.StatusOK
StatusOK == 200

\* Mutant: only the completion array itself is tested.
CompletionIsEmptyArrayOnly(backend, items) == items = <<>>

\* len(Content) == 0, len(Choices) == 0,
\* len(Candidates) == 0 || len(Candidates[0].Content.Parts) == 0
CompletionIsEmpty(backend, items) ==
  items = <<>> \/ (backend = "gemini" /\ items[1] = <<>>)

\* GenerateCommitMessage of the three clients after the request was built:
\* client.Do, io.ReadAll, the status test, the decoding of the body, the
\* test of the completion array and ParseResponse on the first text.
GenerateCommitMessage(backend, resp) ==
  IF resp.err = "send" THEN Outcome("SendFailed", "", 0, NoBody, <<>>)
  ELSE IF resp.err = "read" THEN Outcome("ReadFailed", "", 0, NoBody, <<>>)
  ELSE IF resp.status # StatusOK
  THEN IF resp.body.kind # "garbage" /\ resp.body.message # ""
       THEN Outcome("APIError", resp.body.message, 0, NoBody, <<>>)
       ELSE Outcome("APIError", "", resp.status, resp.body, <<>>)
  ELSE IF resp.body.kind = "garbage" THEN Outcome("ParseFailed", "", 0, NoBody, <<>>)
  ELSE IF CompletionIsEmpty(backend, resp.body.items)
  THEN Outcome("EmptyResponse", "", 0, NoBody, <<>>)
  ELSE Outcome("Parsed", "", 0, NoBody,
               <<IF resp.body.items[1] = <<>> THEN <<>> ELSE resp.body.items[1][1]>>)

\* Config.GetAPIKey: the first of the provider's two environment variables
\* that is set, else the provider's item of the keyring, else "". A key is
\* written as the name of the place it was stored in.
GetAPIKey(provider, store) ==
  LET name == ToLower(provider)
      envVars == CASE name = <<"a", "n", "t", "h", "r", "o", "p", "i", "c">> -> <<"ANTHROPIC_API_KEY", "AI_COMMIT_ANTHROPIC_KEY">>
                   [] name = <<"g", "e", "m", "i", "n", "i">> -> <<"GEMINI_API_KEY", "AI_COMMIT_GEMINI_KEY">>
                   [] name = <<"o", "p", "e", "n", "a", "i">> -> <<"OPENAI_API_KEY", "AI_COMMIT_OPENAI_KEY">>
                   [] OTHER -> <<>>
      keyName == CASE name = <<"a", "n", "t", "h", "r", "o", "p", "i", "c">> -> "anthropic_api_key"
                   [] name = <<"g", "e", "m", "i", "n", "i">> -> "gemini_api_key"
                   [] name = <<"o", "p", "e", "n", "a", "i">> -> "openai_api_key"
                   [] OTHER -> "other_api_key"
  IN  IF \E i \in DOMAIN envVars : envVars[i] \in store.env
      THEN envVars[CHOOSE i \in DOMAIN envVars :
                     /\ envVars[i] \in store.env
                     /\ \A j \in 1..(i - 1) : envVars[j] \notin store.env]
      ELSE IF keyName \in store.ring THEN keyName
      ELSE ""

\* viper.SetDefault("model", ...)
ConfigModel == <<"c", "l", "a", "u", "d", "e", "-", "h", "a", "i", "k", "u", "-", "4", "-", "5", "-", "2", "0", "2", "5", "1", "0", "1", "5">>

\* ------------------------------------------------------------------------
\* package prompt: EditCommitMessage
\* ------------------------------------------------------------------------
EditComments ==
  <<"\n", "#", " ", "P", "l", "e", "a", "s", "e", " ", "e", "d", "i", "t", " ", "t", "h", "e", " ", "c", "o", "m", "m", "i", "t", " ", "m", "e", "s", "s", "a", "g", "e", " ", "a", "b", "o", "v", "e", ".", "\n">>
  \o <<"#", " ", "L", "i", "n", "e", "s", " ", "s", "t", "a", "r", "t", "i", "n", "g", " ", "w", "i", "t", "h", " ", "'", "#", "'", " ", "w", "i", "l", "l", " ", "b", "e", " ", "i", "g", "n", "o", "r", "e", "d", ".", "\n">>
  \o <<"#", " ", "T", "h", "e", " ", "f", "i", "r", "s", "t", " ", "l", "i", "n", "e", " ", "s", "h", "o", "u", "l", "d", " ", "b", "e", " ", "t", "h", "e", " ", "h", "e", "a", "d", "e", "r", " ", "(", "m", "a", "x", " ", "7", "2", " ", "c", "h", "a", "r", "s", ")", ".", "\n">>
  \o <<"#", " ", "T", "h", "e", " ", "d", "e", "s", "c", "r", "i", "p", "t", "i", "o", "n", " ", "c", "a", "n", " ", "b", "e", " ", "m", "u", "l", "t", "i", "p", "l", "e", " ", "l", "i", "n", "e", "s", ".", "\n">>

\* The text written to the temporary file before the editor is opened.
EditContent(current) ==
  HEADER \o <<" ">> \o current.Header \o <<"\n", "\n">>
  \o DESCRIPTION \o <<" ">> \o current.Description \o NL
  \o EditComments

\* The loop over the lines of the edited file.
RECURSIVE EditScan(_, _, _, _, _)
EditScan(lines, header, description, descLines, inDescription) ==
  IF lines = <<>>
  THEN [header |-> header, description |-> description, descLines |-> descLines]
  ELSE LET line == Head(lines)
           rest == Tail(lines)
       IN  IF HasPrefix(TrimSpace(line), <<"#">>)
           THEN EditScan(rest, header, description, descLines, inDescription)
           ELSE IF HasPrefix(line, HEADER)
           THEN EditScan(rest, TrimSpace(TrimPrefix(line, HEADER)), description,
                         descLines, inDescription)
           ELSE IF HasPrefix(line, DESCRIPTION)
           THEN EditScan(rest, header, TrimSpace(TrimPrefix(line, DESCRIPTION)),
                         descLines, TRUE)
           ELSE IF inDescription /\ TrimSpace(line) # <<>>
           THEN EditScan(rest, header, description, Append(descLines, line), inDescription)
           ELSE EditScan(rest, header, description, descLines, inDescription)

\* Mutant: the text on the DESCRIPTION: line itself is dropped.
EditFieldsContinuationOnly(editedContent) ==
  LET r == EditScan(Split(editedContent, "\n"), <<>>, <<>>, <<>>, FALSE) IN
  [header |-> r.header, description |-> Join(r.descLines, NL)]

\* The header and description the edited file yields, before any fallback.
EditFields(editedContent) ==
  LET r == EditScan(Split(editedContent, "\n"), <<>>, <<>>, <<>>, FALSE) IN
  [header |-> r.header,
   description |->
     IF Len(r.descLines) > 0
     THEN IF r.description # <<>>
          THEN r.description \o NL \o Join(r.descLines, NL)
          ELSE Join(r.descLines, NL)
     ELSE r.description]

\* The message EditCommitMessage returns for the file the editor left.
EditResult(current, editedContent) ==
  LET f == EditFields(editedContent) IN
  CommitMessage(IF f.header = <<>> THEN current.Header ELSE f.header,
                f.description)

\* ------------------------------------------------------------------------
\* package git: GetFullDiff
\* ------------------------------------------------------------------------
ModifiedFilesMarker ==
  <<"=", "=", "=", " ", "M", "O", "D", "I", "F", "I", "E", "D", " ", "F", "I", "L", "E", "S", " ", "=", "=", "=", "\n">>
NewFilesMarker ==
  <<"=", "=", "=", " ", "N", "E", "W", " ", "F", "I", "L", "E", "S", " ", "=", "=", "=", "\n">>
NewFilePrefix == <<"\n", "-", "-", "-", " ", "N", "e", "w", " ", "f", "i", "l", "e", ":", " ">>
NewFileSuffix == <<" ", "-", "-", "-", "\n">>
CouldNotRead ==
  <<"[", "C", "o", "u", "l", "d", " ", "n", "o", "t", " ", "r", "e", "a", "d", " ", "f", "i", "l", "e", ":", " ">>

\* Inputs: what git and the file system answer.
FooTxt == <<"f", "o", "o", ".", "t", "x", "t">>
Hello == <<"h", "e", "l", "l", "o", "\n">>
ReadError ==
  <<"o", "p", "e", "n", " ", "f", "o", "o", ".", "t", "x", "t", ":", " ", "p", "e", "r", "m", "i", "s", "s", "i", "o", "n", " ", "d", "e", "n", "i", "e", "d">>
TrackedDiff ==
  <<"d", "i", "f", "f", " ", "-", "-", "g", "i", "t", " ", "a", "/", "x", " ", "b", "/", "x", "\n">>
TrackedOutputs == {<<>>, TrackedDiff}
UntrackedOutputs == {<<>>, FooTxt \o NL}
FileReads == {[ok |-> TRUE, content |-> Hello], [ok |-> FALSE, content |-> ReadError]}
BarTxt == <<"b", "a", "r", ".", "t", "x", "t">>
FileNames == {FooTxt, BarTxt}

RECURSIVE AdditionLines(_)
AdditionLines(lines) ==
  IF lines = <<>> THEN <<>>
  ELSE <<"+">> \o Head(lines) \o NL \o AdditionLines(Tail(lines))

\* Mutant: the collection stops at the first file that cannot be read.
RECURSIVE NewFileSectionsStopOnError(_, _)
NewFileSectionsStopOnError(files, read) ==
  IF files = <<>> THEN <<>>
  ELSE LET file == Head(files) IN
       IF file = <<>> THEN NewFileSectionsStopOnError(Tail(files), read)
       ELSE IF ~read[file].ok
       THEN NewFilePrefix \o file \o NewFileSuffix
            \o CouldNotRead \o read[file].content \o <<"]", "\n">>
       ELSE NewFilePrefix \o file \o NewFileSuffix
            \o AdditionLines(Split(read[file].content, "\n")) \o NL
            \o NewFileSectionsStopOnError(Tail(files), read)

RECURSIVE NewFileSections(_, _)
NewFileSections(files, read) ==
  IF files = <<>> THEN <<>>
  ELSE LET file == Head(files) IN
       (IF file = <<>> THEN <<>>
        ELSE NewFilePrefix \o file \o NewFileSuffix
             \o (IF ~read[file].ok
                 THEN CouldNotRead \o read[file].content \o <<"]", "\n">>
                 ELSE AdditionLines(Split(read[file].content, "\n")) \o NL))
       \o NewFileSections(Tail(files), read)

GetFullDiff(trackedOutput, untrackedOutput, read) ==
  (IF Len(trackedOutput) > 0
   THEN ModifiedFilesMarker \o trackedOutput \o <<"\n", "\n">>
   ELSE <<>>)
  \o
  (IF Len(untrackedOutput) > 0
   THEN NewFilesMarker
        \o NewFileSections(Split(TrimSpace(untrackedOutput), "\n"), read)
   ELSE <<>>)

\* ------------------------------------------------------------------------
\* Inputs of a run: provider output and what the user types in the editor
\* ------------------------------------------------------------------------
FixBug == <<"F", "i", "x", " ", "b", "u", "g">>
OffByOne ==
  <<"R", "e", "s", "o", "l", "v", "e", "s", " ", "o", "f", "f", "-", "b", "y", "-", "o", "n", "e">>
HeaderBodies == {FixBug}
DescriptionBodies == {<<>>, OffByOne, <<"#", " ", "x">>, HEADER \o <<" ", "y">>}

\* Provider text in the two-line format the prompt asks for.
RenderRaw(h, d) == HEADER \o <<" ">> \o h \o NL \o DESCRIPTION \o <<" ">> \o d \o NL

RawTexts ==
  {RenderRaw(h, d) : h \in HeaderBodies, d \in DescriptionBodies}
  \cup {DESCRIPTION \o <<" ">> \o OffByOne \o NL, HEADER \o <<" ">> \o FixBug}

NewHeaders == {<<"N", "e", "w">>}
MoreLine == <<"m", "o", "r", "e">>

RECURSIVE ReplaceFirst(_, _, _)
ReplaceFirst(ls, marker, new) ==
  With(ls, LAMBDA lines :
    IF lines = <<>> THEN <<>>
    ELSE IF HasPrefix(Head(lines), marker) THEN <<new>> \o Tail(lines)
    ELSE <<Head(lines)>> \o ReplaceFirst(Tail(lines), marker, new))

RECURSIVE DropLines(_, _)
DropLines(ls, marker) ==
  With(ls, LAMBDA lines :
    IF lines = <<>> THEN <<>>
    ELSE IF HasPrefix(Head(lines), marker) THEN DropLines(Tail(lines), marker)
    ELSE <<Head(lines)>> \o DropLines(Tail(lines), marker))

RECURSIVE InsertAfter(_, _, _)
InsertAfter(ls, marker, new) ==
  With(ls, LAMBDA lines :
    IF lines = <<>> THEN <<>>
    ELSE IF HasPrefix(Head(lines), marker) THEN <<Head(lines), new>> \o Tail(lines)
    ELSE <<Head(lines)>> \o InsertAfter(Tail(lines), marker, new))

\* The same buffer with only its header line rewritten.
WithHeaderLine(content, h) ==
  Join(ReplaceFirst(Split(content, "\n"), HEADER, HEADER \o <<" ">> \o h), NL)

CountLines(s) == Len(Split(s, "\n"))

\* The files the user may leave behind when the editor closes.
UserEdits(content, current) ==
  With(Split(content, "\n"), LAMBDA lines :
  {content}
  \cup {WithHeaderLine(content, h) : h \in NewHeaders \cup {<<>>}}
  \cup {Join(DropLines(lines, DESCRIPTION), NL)}
  \cup {Join(DropLines(lines, HEADER), NL)}
  \cup {<<>>}
  \cup (IF CountLines(current.Description) < MaxDescLines
        THEN {Join(InsertAfter(lines, DESCRIPTION, MoreLine), NL)}
        ELSE {}))

\* ------------------------------------------------------------------------
\* State
\* ------------------------------------------------------------------------
VARIABLES
  impl,            \* "go": the Go command, "ps": the PowerShell function
  pushFlag, claspFlag, wranglerFlag, exportFlag,
  inRepo,          \* the working directory is inside a git repository
  apiKey,          \* what the configuration yields as API key
  pc,              \* the statement the run is at
  result,          \* how the run ended ("" while it is running)
  diff,            \* diff / $fullDiff
  rawText,         \* the completion text handed to the parser
  currentMessage,  \* currentMessage / $currentHeader, $currentDescription
  committed,       \* committed / $committed
  choice,          \* the last answer of the "Use this message?" prompt
  edits,           \* completed edit rounds
  presented,       \* the message displayed last
  editCurrent,     \* the message the last edit round started from
  editedContent,   \* the file the editor left in the last edit round
  finalMessage,    \* finalMessage / $finalMessage
  effects,         \* the mutating commands run so far, with their outcome
  client,          \* client of runCommit: "nil" until llm.NewClient returns one
  requests,        \* HTTP requests sent to a generation endpoint
  truncated,       \* the diff put into the request was cut to the bound
  warned,          \* the truncation note was written to the terminal
  verified,        \* what the clasp and wrangler checks have found in order
  written,         \* the files the run has written in the working directory
  call,            \* the function applied last on its own, with its arguments
  ret              \* what that application returned

vars == <<impl, pushFlag, claspFlag, wranglerFlag, exportFlag, inRepo, apiKey,
          pc, result, diff, rawText, currentMessage, committed, choice, edits,
          presented, editCurrent, editedContent, finalMessage, effects,
          client, requests, truncated, warned, verified, written, call, ret>>

flagVars == <<impl, pushFlag, claspFlag, wranglerFlag, exportFlag, inRepo, apiKey>>
callVars == <<client, requests, truncated, warned>>
pureVars == <<call, ret>>
traceVars == <<verified, written>>
loopVars == <<currentMessage, committed, choice, edits, presented, editCurrent,
              editedContent, finalMessage>>

ApiKeys == {"", "sk-key"}

NoCall == [fn |-> "", args |-> <<>>]

Effect(op, res) == [op |-> op, res |-> res]

\* A run ends: return from runCommit / return from aicommit.
Return(r) == pc' = "done" /\ result' = r

\* Nothing has happened yet in the run.
NothingDone ==
  /\ result = ""
  /\ diff = <<>>
  /\ rawText = <<>>
  /\ currentMessage = NilMessage
  /\ committed = FALSE
  /\ choice = ""
  /\ edits = 0
  /\ presented = NilMessage
  /\ editCurrent = NilMessage
  /\ editedContent = <<>>
  /\ finalMessage = <<>>
  /\ effects = <<>>
  /\ client = "nil"
  /\ requests = 0
  /\ truncated = FALSE
  /\ warned = FALSE
  /\ verified = {}
  /\ written = {}

Init ==
  /\ impl \in {"go", "ps"}
  /\ pushFlag \in BOOLEAN
  /\ claspFlag \in BOOLEAN
  /\ wranglerFlag \in BOOLEAN
  /\ exportFlag \in BOOLEAN
  /\ inRepo \in BOOLEAN
  /\ apiKey \in ApiKeys
  /\ pc = "start"
  /\ NothingDone
  /\ call = NoCall
  /\ ret = <<>>

\* ------------------------------------------------------------------------
\* package cmd: runCommit
\* ------------------------------------------------------------------------
IsGitRepository == inRepo

\* rootCmd registers --config, --push and --clasp: with any other flag
\* Execute fails on the command line and runCommit is not called.
FlagsParse == ~wranglerFlag /\ ~exportFlag

GoExecute ==
  /\ impl = "go" /\ pc = "start"
  /\ ~FlagsParse
  /\ Return("UnknownFlag")
  /\ UNCHANGED <<flagVars, pureVars, traceVars, callVars, loopVars, diff, rawText, effects>>

GoCheckRepository ==
  /\ impl = "go" /\ pc = "start"
  /\ FlagsParse
  /\ IF ~IsGitRepository
     THEN Return("NotARepository")
     ELSE pc' = "clasp" /\ result' = result
  /\ UNCHANGED <<flagVars, pureVars, traceVars, callVars, loopVars, diff, rawText, effects>>

\* prompt.Confirm: "yes", "no" (ErrAbort) or another prompt error.
ConfirmAnswers == {"yes", "no", "err"}

\* Mutant: the run goes on when the user has not confirmed the pull.
GoClaspCheckIgnoresAnswer ==
  /\ impl = "go" /\ pc = "clasp"
  /\ IF claspFlag
     THEN \E isClaspProject \in BOOLEAN, answer \in ConfirmAnswers :
            IF ~isClaspProject THEN Return("NotClaspProject") /\ verified' = verified
            ELSE IF answer = "err"
            THEN Return("ConfirmFailed") /\ verified' = verified \cup {".clasp.json"}
            ELSE /\ pc' = "diff" /\ result' = result
                 /\ verified' = verified \cup {".clasp.json"}
                                 \cup (IF answer = "yes" THEN {"pulled"} ELSE {})
     ELSE pc' = "diff" /\ result' = result /\ verified' = verified
  /\ UNCHANGED <<flagVars, pureVars, written, callVars, loopVars, diff, rawText, effects>>

GoClaspCheck ==
  /\ impl = "go" /\ pc = "clasp"
  /\ IF claspFlag
     THEN \E isClaspProject \in BOOLEAN, answer \in ConfirmAnswers :
            IF ~isClaspProject THEN Return("NotClaspProject") /\ verified' = verified
            ELSE IF answer = "err"
            THEN Return("ConfirmFailed") /\ verified' = verified \cup {".clasp.json"}
            ELSE IF answer = "no"
            THEN Return("ClaspNotPulled") /\ verified' = verified \cup {".clasp.json"}
            ELSE /\ pc' = "diff" /\ result' = result
                 /\ verified' = verified \cup {".clasp.json", "pulled"}
     ELSE pc' = "diff" /\ result' = result /\ verified' = verified
  /\ UNCHANGED <<flagVars, pureVars, written, callVars, loopVars, diff, rawText, effects>>

\* Mutant: an empty diff is not recognised.
DiffIsEmptyNever(d) == FALSE

\* runCommit: diff == "".
DiffIsEmpty(d) == d = <<>>

GoGetFullDiff ==
  /\ impl = "go" /\ pc = "diff"
  /\ \E lsFails \in BOOLEAN, tracked \in TrackedOutputs,
        untracked \in UntrackedOutputs, read \in FileReads :
       IF lsFails
       THEN Return("DiffFailed") /\ diff' = diff
       ELSE /\ diff' = GetFullDiff(tracked, untracked, [file \in FileNames |-> read])
            /\ IF DiffIsEmpty(diff')
               THEN Return("NoChanges")
               ELSE pc' = "client" /\ result' = result
  /\ UNCHANGED <<flagVars, pureVars, traceVars, callVars, loopVars, rawText, effects>>

GoNewClient ==
  /\ impl = "go" /\ pc = "client"
  /\ IF ~NewClient(ConfigModel, apiKey).ok
     THEN Return("MissingAPIKey") /\ client' = client
     ELSE pc' = "generate" /\ result' = result /\ client' = "client"
  /\ UNCHANGED <<flagVars, pureVars, traceVars, requests, truncated, warned, loopVars, diff, rawText, effects>>

\* What the HTTP exchange of GenerateCommitMessage ends in.
Exchanges ==
  {[kind |-> k, text |-> <<>>] : k \in {"transport", "status", "empty", "absent"}}
  \cup {[kind |-> "text", text |-> t] : t \in RawTexts}

\* GenerateCommitMessage cuts the diff to cfg.MaxDiffLength, builds the
\* prompt and sends one request; nothing is printed when the diff is cut.
GoGenerate ==
  /\ impl = "go" /\ pc = "generate"
  /\ \E maxLength \in MaxDiffLengths :
       truncated' = (TruncateDiff(diff, maxLength) # diff)
  /\ requests' = requests + 1
  /\ \E x \in Exchanges :
       CASE x.kind = "transport" ->
              Return("RemoteTransportFailure") /\ UNCHANGED <<rawText, currentMessage>>
         [] x.kind = "status" ->
              Return("RemoteAPIError") /\ UNCHANGED <<rawText, currentMessage>>
         [] x.kind \in {"empty", "absent"} ->
              Return("EmptyResponse") /\ UNCHANGED <<rawText, currentMessage>>
         [] OTHER ->
              /\ rawText' = x.text
              /\ LET suggestion == ParseResponse(x.text) IN
                 IF ~suggestion.ok
                 THEN Return("NoHeaderFound") /\ currentMessage' = currentMessage
                 ELSE /\ currentMessage' = suggestion.msg
                      /\ pc' = "present" /\ result' = result
  /\ UNCHANGED <<flagVars, pureVars, traceVars, client, warned, diff, committed, choice, edits, presented,
                 editCurrent, editedContent, finalMessage, effects>>

\* Mutant: another round of the loop asks the provider again.
LoopHeadRegenerates(c) == IF c THEN "done" ELSE "generate"

\* Mutants: the loop condition is never false / is never true.
LoopHeadNeverExits(c) == "present"
LoopHeadAlwaysExits(c) == "done"

\* for !committed { ... }: where control goes at the end of an iteration.
LoopHead(c) == IF c THEN "done" ELSE "present"

Continue(c) ==
  /\ pc' = LoopHead(c)
  /\ result' = IF pc' = "done" THEN "Done" ELSE result

\* Mutants: the edit case runs the yes case / the cancel case does not return.
SwitchChoiceEditCommits(c) ==
  CASE c = "cancel" -> "done"
    [] c = "edit" -> "stage"
    [] c = "yes" -> "stage"
SwitchChoiceCancelFallsThrough(c) ==
  CASE c = "cancel" -> "stage"
    [] c = "edit" -> "edit"
    [] c = "yes" -> "stage"

\* switch choice: the statement each case starts with.
SwitchChoice(c) ==
  CASE c = "cancel" -> "done"
    [] c = "edit" -> "edit"
    [] c = "yes" -> "stage"

GoPrompt ==
  /\ impl = "go" /\ pc = "present"
  /\ presented' = currentMessage
  /\ \E answer \in {"yes", "edit", "cancel", "err"} :
       /\ answer = "edit" => edits < MaxEdits
       /\ IF answer = "err"
          THEN choice' = "" /\ Return("PromptFailed")
          ELSE /\ choice' = answer
               /\ pc' = SwitchChoice(answer)
               /\ result' = IF pc' = "done" THEN "Cancelled" ELSE result
  /\ UNCHANGED <<flagVars, pureVars, traceVars, callVars, diff, rawText, currentMessage, committed, edits,
                 editCurrent, editedContent, finalMessage, effects>>

GoEdit ==
  /\ impl = "go" /\ pc = "edit"
  /\ \/ /\ Return("EditFailed")
        /\ UNCHANGED <<currentMessage, edits, editCurrent, editedContent>>
     \/ \E e \in UserEdits(EditContent(currentMessage), currentMessage) :
          /\ editCurrent' = currentMessage
          /\ editedContent' = e
          /\ currentMessage' = EditResult(currentMessage, e)
          /\ edits' = edits + 1
          /\ Continue(committed)
  /\ UNCHANGED <<flagVars, pureVars, traceVars, callVars, diff, rawText, committed, choice, presented,
                 finalMessage, effects>>

GoStageAll ==
  /\ impl = "go" /\ pc = "stage"
  /\ Len(effects) < MaxEffects
  /\ \E res \in {"ok", "fail"} :
       /\ effects' = Append(effects, Effect("StageAll", res))
       /\ IF res = "fail"
          THEN Return("StageFailure")
          ELSE pc' = "commit" /\ result' = result
  /\ UNCHANGED <<flagVars, pureVars, traceVars, callVars, loopVars, diff, rawText>>

GoCommit ==
  /\ impl = "go" /\ pc = "commit"
  /\ finalMessage' = Format(currentMessage)
  /\ \E res \in {"ok", "fail"} :
       /\ effects' = Append(effects, Effect("Commit", res))
       /\ IF res = "fail"
          THEN Return("CommitFailure") /\ committed' = committed
          ELSE committed' = TRUE /\ pc' = "push" /\ result' = result
  /\ UNCHANGED <<flagVars, pureVars, traceVars, callVars, diff, rawText, currentMessage, choice, edits, presented,
                 editCurrent, editedContent>>

GoPush ==
  /\ impl = "go" /\ pc = "push"
  /\ IF pushFlag
     THEN \E res \in {"ok", "fail"} : effects' = Append(effects, Effect("Push", res))
     ELSE effects' = effects
  /\ pc' = "claspPush"
  /\ UNCHANGED <<flagVars, pureVars, traceVars, callVars, loopVars, diff, rawText, result>>

GoClaspPush ==
  /\ impl = "go" /\ pc = "claspPush"
  /\ IF claspFlag
     THEN \E res \in {"ok", "fail"} : effects' = Append(effects, Effect("ClaspPush", res))
     ELSE effects' = effects
  /\ Continue(committed)
  /\ UNCHANGED <<flagVars, pureVars, traceVars, callVars, loopVars, diff, rawText>>

GoNext ==
  \/ GoExecute
  \/ GoCheckRepository
  \/ GoClaspCheck
  \/ GoGetFullDiff
  \/ GoNewClient
  \/ GoGenerate
  \/ GoPrompt
  \/ GoEdit
  \/ GoStageAll
  \/ GoCommit
  \/ GoPush
  \/ GoClaspPush

\* ------------------------------------------------------------------------
\* PowerShell: operators and pipeline pieces the function aicommit relies on
\* ------------------------------------------------------------------------
\* -match and -replace ignore case.
PsUpper(c) ==
  CASE c = "h" -> "H" [] c = "e" -> "E" [] c = "a" -> "A" [] c = "d" -> "D"
    [] c = "r" -> "R" [] c = "s" -> "S" [] c = "c" -> "C" [] c = "i" -> "I"
    [] c = "p" -> "P" [] c = "t" -> "T" [] c = "o" -> "O" [] c = "n" -> "N"
    [] c = "l" -> "L" [] c = "u" -> "U" [] c = "g" -> "G" [] c = "m" -> "M"
    [] OTHER -> c

\* $_ -match "^HEADER:"
PsMatch(line, marker) ==
  Len(line) >= Len(marker) /\ \A i \in 1..Len(marker) : PsUpper(line[i]) = marker[i]

\* $_ -replace "^HEADER:\s*", ""
PsReplace(line, marker) ==
  IF PsMatch(line, marker) THEN TrimLeft(SubSeq(line, Len(marker) + 1, Len(line))) ELSE line

RECURSIVE PsWhere(_, _)
PsWhere(lines, marker) ==
  IF lines = <<>> THEN <<>>
  ELSE With(Head(lines), LAMBDA line :
         With(PsWhere(Tail(lines), marker), LAMBDA rest :
           IF PsMatch(line, marker) THEN <<PsReplace(line, marker)>> \o rest ELSE rest))

\* ($lines | Where-Object { $_ -match "^M" }) -replace "^M\s*", "": one match
\* is a string, several are an array, which "$x" joins with spaces and
\* which is true in a condition whatever it holds.
PsField(lines, marker) ==
  With(PsWhere(lines, marker), LAMBDA found :
    [text |-> Join(found, <<" ">>),
     truthy |-> Len(found) >= 2 \/ (Len(found) = 1 /\ found[1] # <<>>)])

PsIsNullOrWhiteSpace(s) == \A i \in 1..Len(s) : IsSpace(s[i])

\* The line end Set-Content appends on Windows, where notepad.exe runs.
PsNewLine == <<"\r", "\n">>

\* $editContent as Get-Content -Raw reads it back when nothing is edited.
PsEditContent(current) ==
  HEADER \o <<" ">> \o current.Header \o <<"\n", "\n">>
  \o DESCRIPTION \o <<" ">> \o current.Description \o PsNewLine

PsParse(text) ==
  LET lines == Split(text, "\n") IN
  CommitMessage(PsField(lines, HEADER).text, PsField(lines, DESCRIPTION).text)

PsEditResult(current, edited) ==
  With(Split(edited, "\n"), LAMBDA editedLines :
    With(PsField(editedLines, HEADER), LAMBDA newHeader :
      With(PsField(editedLines, DESCRIPTION), LAMBDA newDescription :
        CommitMessage(IF newHeader.truthy THEN newHeader.text ELSE current.Header,
                      IF newDescription.truthy THEN newDescription.text
                      ELSE current.Description))))

PsFinalMessage(current) ==
  IF PsIsNullOrWhiteSpace(current.Description) THEN current.Header
  ELSE current.Header \o <<"\n", "\n">> \o current.Description

\* What a native command's output is as a PowerShell value: its lines.
PsCapture(output) ==
  IF output = <<>> THEN <<>>
  ELSE Split(IF output[Len(output)] = "\n" THEN SubSeq(output, 1, Len(output) - 1)
             ELSE output, "\n")

PsCouldNotRead ==
  <<"[", "C", "o", "u", "l", "d", " ", "n", "o", "t", " ", "r", "e", "a", "d", " ", "f", "i", "l", "e", " ", "c", "o", "n", "t", "e", "n", "t", ":", " ">>

RECURSIVE PsNewFileSections(_, _)
PsNewFileSections(files, read) ==
  IF files = <<>> THEN <<>>
  ELSE LET file == Head(files) IN
       (IF PsIsNullOrWhiteSpace(file) THEN <<>>
        ELSE NewFilePrefix \o file \o NewFileSuffix
             \o (IF ~read[file].ok
                 THEN PsCouldNotRead \o read[file].content \o <<"]", "\n">>
                 ELSE AdditionLines(Split(read[file].content, "\n")))
             \o NL)
       \o PsNewFileSections(Tail(files), read)

PsFullDiff(trackedOutput, untrackedOutput, read) ==
  LET trackedChanges == Join(PsCapture(trackedOutput), <<" ">>)
      untrackedFiles == PsCapture(untrackedOutput)
  IN  (IF ~PsIsNullOrWhiteSpace(trackedChanges)
       THEN ModifiedFilesMarker \o trackedChanges \o <<"\n", "\n">>
       ELSE <<>>)
      \o
      (IF ~PsIsNullOrWhiteSpace(Join(untrackedFiles, <<" ">>))
       THEN NewFilesMarker \o PsNewFileSections(untrackedFiles, read)
       ELSE <<>>)

PsTruncate(fullDiff, maxLength) ==
  IF Len(fullDiff) > maxLength
  THEN SubSeq(fullDiff, 1, maxLength) \o TruncationMarker
  ELSE fullDiff

\* ------------------------------------------------------------------------
\* PowerShell: function aicommit
\* ------------------------------------------------------------------------
GeminiFlash ==
  <<"g", "e", "m", "i", "n", "i", "-", "2", ".", "5", "-", "f", "l", "a", "s", "h">>
ClaudeHaiku3 ==
  <<"c", "l", "a", "u", "d", "e", "-", "3", "-", "h", "a", "i", "k", "u", "-", "2", "0", "2", "4", "0", "3", "0", "7">>
Gpt5Mini == <<"g", "p", "t", "-", "5", "-", "m", "i", "n", "i">>

\* $env:AI_COMMIT_MODEL; <<>> when it is not set.
PsModelSettings == {<<>>, GeminiFlash, ClaudeHaiku3, Gpt5Mini}

\* $AI_MODEL -like "prefix*"
PsLike(s, prefix) ==
  Len(s) >= Len(prefix) /\ \A i \in 1..Len(prefix) : PsUpper(s[i]) = PsUpper(prefix[i])

PsCarrier(model) ==
  IF PsLike(model, <<"c", "l", "a", "u", "d", "e", "-">>) THEN "anthropic"
  ELSE IF \/ PsLike(model, <<"g", "e", "m", "i", "n", "i", "-">>)
          \/ PsLike(model, <<"m", "o", "d", "e", "l", "s", "/", "g", "e", "m", "i", "n", "i", "-">>)
  THEN "google"
  ELSE "unknown"

\* git rev-parse in try/catch: a failing git only sets an exit code, which
\* the function does not read; the catch runs when git cannot be started.
PsCheckRepository ==
  /\ impl = "ps" /\ pc = "start"
  /\ \E gitThrows \in BOOLEAN :
       IF gitThrows
       THEN Return("NotARepository")
       ELSE pc' = "clasp" /\ result' = result
  /\ UNCHANGED <<flagVars, pureVars, traceVars, callVars, loopVars, diff, rawText, effects>>

PsClaspCheck ==
  /\ impl = "ps" /\ pc = "clasp"
  /\ IF claspFlag
     THEN \E isClaspProject \in BOOLEAN, claspPulled \in {"y", "yes", "n", ""} :
            IF ~isClaspProject THEN Return("NotClaspProject") /\ verified' = verified
            ELSE IF claspPulled \notin {"y", "yes"}
            THEN Return("ClaspNotPulled") /\ verified' = verified \cup {".clasp.json"}
            ELSE /\ pc' = "wrangler" /\ result' = result
                 /\ verified' = verified \cup {".clasp.json", "pulled"}
     ELSE pc' = "wrangler" /\ result' = result /\ verified' = verified
  /\ UNCHANGED <<flagVars, pureVars, written, callVars, loopVars, diff, rawText, effects>>

PsWranglerCheck ==
  /\ impl = "ps" /\ pc = "wrangler"
  /\ IF wranglerFlag
     THEN \E isWranglerProject \in BOOLEAN :
            IF ~isWranglerProject THEN Return("NotWranglerProject") /\ verified' = verified
            ELSE /\ pc' = "model" /\ result' = result
                 /\ verified' = verified \cup {"wrangler.toml"}
     ELSE pc' = "model" /\ result' = result /\ verified' = verified
  /\ UNCHANGED <<flagVars, pureVars, written, callVars, loopVars, diff, rawText, effects>>

PsModelAndKey ==
  /\ impl = "ps" /\ pc = "model"
  /\ \E setting \in PsModelSettings :
       LET AI_MODEL == IF setting # <<>> THEN setting ELSE GeminiFlash
           carrier == PsCarrier(AI_MODEL)
       IN  IF carrier = "unknown" THEN Return("UnknownCarrier")
           ELSE IF apiKey = "" THEN Return("MissingAPIKey")
           ELSE pc' = "diff" /\ result' = result
  /\ UNCHANGED <<flagVars, pureVars, traceVars, callVars, loopVars, diff, rawText, effects>>

\* Outside a repository git prints nothing on its standard output.
PsCollectDiff ==
  /\ impl = "ps" /\ pc = "diff"
  /\ \E tracked \in (IF inRepo THEN TrackedOutputs ELSE {<<>>}),
        untracked \in (IF inRepo THEN UntrackedOutputs ELSE {<<>>}),
        read \in FileReads, maxLength \in MaxDiffLengths :
       LET fullDiff == PsFullDiff(tracked, untracked, [file \in FileNames |-> read]) IN
       IF PsIsNullOrWhiteSpace(fullDiff)
       THEN Return("NoChanges") /\ diff' = fullDiff /\ UNCHANGED <<truncated, warned>>
       ELSE /\ diff' = PsTruncate(fullDiff, maxLength)
            /\ truncated' = (diff' # fullDiff)
            /\ warned' = (Len(fullDiff) > maxLength)
            /\ pc' = "export" /\ result' = result
  /\ UNCHANGED <<flagVars, pureVars, traceVars, client, requests, loopVars, rawText, effects>>

PsExport ==
  /\ impl = "ps" /\ pc = "export"
  /\ IF exportFlag
     THEN Return("Exported") /\ written' = written \cup {"git-diff-export.txt"}
     ELSE pc' = "call" /\ result' = result /\ written' = written
  /\ UNCHANGED <<flagVars, pureVars, verified, callVars, loopVars, diff, rawText, effects>>

\* $jsonRequest | Out-File -FilePath $debugFile
SaveRequest == written' = written \cup {"debug_failed_request.json"}

\* Invoke-RestMethod and the extraction of $suggestion.  A missing
\* completion array throws inside the try block, an empty one yields $null.
PsCallAI ==
  /\ impl = "ps" /\ pc = "call"
  /\ \E x \in Exchanges :
       CASE x.kind = "transport" ->
              Return("RemoteTransportFailure") /\ rawText' = rawText /\ SaveRequest
         [] x.kind = "status" ->
              Return("RemoteAPIError") /\ rawText' = rawText /\ SaveRequest
         [] x.kind = "absent" ->
              Return("RemoteAPIError") /\ rawText' = rawText /\ SaveRequest
         [] OTHER ->
              rawText' = x.text /\ pc' = "parse" /\ result' = result /\ written' = written
  /\ requests' = requests + 1
  /\ UNCHANGED <<flagVars, pureVars, verified, client, truncated, warned, loopVars, diff, effects>>

PsParseSuggestion ==
  /\ impl = "ps" /\ pc = "parse"
  /\ currentMessage' = PsParse(rawText)
  /\ committed' = FALSE
  /\ pc' = "present"
  /\ UNCHANGED <<flagVars, pureVars, traceVars, callVars, diff, rawText, result, choice, edits, presented,
                 editCurrent, editedContent, finalMessage, effects>>

\* Read-Host answers the do/while lets through, lower-cased.
PsAnswers == {"y", "yes", "", "e", "edit", "c", "cancel"}

PsPrompt ==
  /\ impl = "ps" /\ pc = "present"
  /\ presented' = currentMessage
  /\ \E answer \in PsAnswers :
       LET c == IF answer = "" THEN "y" ELSE answer IN
       /\ c \in {"e", "edit"} => edits < MaxEdits
       /\ choice' = c
       /\ IF c \in {"c", "cancel"}
          THEN Return("Cancelled") /\ UNCHANGED <<finalMessage, committed>>
          ELSE IF c \in {"e", "edit"}
          THEN pc' = "edit" /\ UNCHANGED <<result, finalMessage, committed>>
          ELSE /\ finalMessage' = PsFinalMessage(currentMessage)
               /\ committed' = TRUE
               /\ pc' = "stage" /\ result' = result
  /\ UNCHANGED <<flagVars, pureVars, traceVars, callVars, diff, rawText, currentMessage, edits, editCurrent,
                 editedContent, effects>>

PsEdit ==
  /\ impl = "ps" /\ pc = "edit"
  /\ \E e \in UserEdits(PsEditContent(currentMessage), currentMessage) :
       /\ editCurrent' = currentMessage
       /\ editedContent' = e
       /\ currentMessage' = PsEditResult(currentMessage, e)
       /\ edits' = edits + 1
       /\ pc' = "present"
  /\ UNCHANGED <<flagVars, pureVars, traceVars, callVars, diff, rawText, result, committed, choice, presented,
                 finalMessage, effects>>

\* git add . 2>&1 | Out-Null: the exit code is not looked at.
PsStage ==
  /\ impl = "ps" /\ pc = "stage"
  /\ Len(effects) < MaxEffects
  /\ \E res \in {"ok", "fail"} : effects' = Append(effects, Effect("StageAll", res))
  /\ pc' = "commit"
  /\ UNCHANGED <<flagVars, pureVars, traceVars, callVars, loopVars, diff, rawText, result>>

PsCommit ==
  /\ impl = "ps" /\ pc = "commit"
  /\ \E res \in {"ok", "fail"} :
       /\ effects' = Append(effects, Effect("Commit", res))
       /\ IF res = "ok"
          THEN pc' = "push" /\ result' = result
          ELSE Return("CommitFailure")
  /\ UNCHANGED <<flagVars, pureVars, traceVars, callVars, loopVars, diff, rawText>>

PsPush ==
  /\ impl = "ps" /\ pc = "push"
  /\ IF pushFlag
     THEN \E res \in {"ok", "fail"} : effects' = Append(effects, Effect("Push", res))
     ELSE effects' = effects
  /\ pc' = "claspPush"
  /\ UNCHANGED <<flagVars, pureVars, traceVars, callVars, loopVars, diff, rawText, result>>

\* clasp and wrangler are started by name: when the program is not
\* installed the call throws and the catch of the commit block runs.
PsClaspPush ==
  /\ impl = "ps" /\ pc = "claspPush"
  /\ IF claspFlag
     THEN \E res \in {"ok", "fail", "throw"} :
            /\ effects' = Append(effects, Effect("ClaspPush", res))
            /\ IF res = "throw"
               THEN Return("CommitException")
               ELSE pc' = "deploy" /\ result' = result
     ELSE effects' = effects /\ pc' = "deploy" /\ result' = result
  /\ UNCHANGED <<flagVars, pureVars, traceVars, callVars, loopVars, diff, rawText>>

PsWranglerDeploy ==
  /\ impl = "ps" /\ pc = "deploy"
  /\ IF wranglerFlag
     THEN \E res \in {"ok", "fail", "throw"} :
            /\ effects' = Append(effects, Effect("Deploy", res))
            /\ Return(IF res = "throw" THEN "CommitException" ELSE "Done")
     ELSE effects' = effects /\ Return("Done")
  /\ UNCHANGED <<flagVars, pureVars, traceVars, callVars, loopVars, diff, rawText>>

PsNext ==
  \/ PsCheckRepository
  \/ PsClaspCheck
  \/ PsWranglerCheck
  \/ PsModelAndKey
  \/ PsCollectDiff
  \/ PsExport
  \/ PsCallAI
  \/ PsParseSuggestion
  \/ PsPrompt
  \/ PsEdit
  \/ PsStage
  \/ PsCommit
  \/ PsPush
  \/ PsClaspPush
  \/ PsWranglerDeploy

Next == GoNext \/ PsNext

Spec == Init /\ [][Next]_vars

\* The command runs in one thread of control and every step it invokes
\* (a prompt, the editor, git, the provider) returns: a step that can be
\* taken is taken.
LiveSpec == Spec /\ WF_vars(Next)

\* ------------------------------------------------------------------------
\* The functions of package llm and the PowerShell truncation on their own
\* ------------------------------------------------------------------------
runVars == <<flagVars, callVars, traceVars, loopVars, result, diff, rawText, effects>>

Call(fn, args) == [fn |-> fn, args |-> args]

\* The application of call.fn to call.args: pc goes from "apply" to "done".
Apply(fn, value) ==
  /\ pc = "apply" /\ call.fn = fn
  /\ ret' = value
  /\ pc' = "done"
  /\ UNCHANGED <<call, runVars>>

Returned(fn) == pc = "done" /\ call.fn = fn

\* A Go string holds the UTF-8 bytes of its text: a character above U+007F
\* is several bytes ("U+00E9" is 0xC3 0xA9); len and slicing count bytes.
RECURSIVE Utf8(_)
Utf8(text) ==
  IF Len(text) = 0 THEN <<>>
  ELSE IF Len(text) = 1
  THEN (IF text[1] = "U+00E9" THEN <<"0xC3", "0xA9">> ELSE <<text[1]>>)
  ELSE Utf8(SubSeq(text, 1, Len(text) \div 2))
       \o Utf8(SubSeq(text, Len(text) \div 2 + 1, Len(text)))

Texts(alphabet, n) == UNION {[1..k -> alphabet] : k \in 0..n}

DiffTexts == Texts({"a", "\n", "U+00E9"}, MaxTextLen)
Bounds == 1..MaxBound

TruncateCalls ==
  {Call(fn, <<text, maxLength>>) :
     fn \in {"TruncateDiff", "PsTruncate"}, text \in DiffTexts, maxLength \in Bounds}

PureTruncateDiff ==
  Apply("TruncateDiff", TruncateDiff(Utf8(call.args[1]), call.args[2]))

\* A .NET string is a sequence of UTF-16 units: "U+00E9" is one of them.
PurePsTruncate ==
  Apply("PsTruncate", PsTruncate(call.args[1], call.args[2]))

Rep(c, n) == [i \in 1..n |-> c]

\* Lines of a provider response: the two markers with several values, with
\* surrounding blanks and without value, a line with neither marker, and
\* headers of 72 and of more than 72 characters.
ResponseLines ==
  {HEADER \o <<" ">> \o FixBug,
   HEADER \o <<" ">> \o <<"N", "e", "w">>,
   <<" ", " ">> \o HEADER \o FixBug \o <<" ", "\r">>,
   HEADER,
   DESCRIPTION \o <<" ">> \o OffByOne,
   DESCRIPTION \o <<"m", "o", "r", "e">>,
   <<"n", "o", "t", "e">>,
   <<>>,
   HEADER \o <<" ">> \o Rep("a", MaxHeaderLen),
   HEADER \o <<" ">> \o Rep("a", 100),
   HEADER \o <<" ">> \o Rep("a", MaxHeaderLen - 1) \o <<" ", "b">>,
   HEADER \o <<" ">> \o Rep("U+00E9", 37)}

ResponseTexts ==
  {Join(ls, NL) : ls \in UNION {[1..k -> ResponseLines] : k \in 0..MaxLines}}

PureParseResponse ==
  Apply("ParseResponse", ParseResponse(Utf8(call.args[1])))

\* Messages the parser returns and messages with a description of two
\* lines, which an edit round produces.
FormatCalls ==
  {Call("Format", <<CommitMessage(h, d)>>) :
     h \in HeaderBodies \cup NewHeaders \cup {Rep("a", MaxHeaderLen)},
     d \in DescriptionBodies \cup {OffByOne \o NL \o MoreLine}}

PureFormat == Apply("Format", Format(call.args[1]))

ParseCalls == {Call("ParseResponse", <<text>>) : text \in ResponseTexts}

Range(f) == {f[i] : i \in DOMAIN f}

\* Model names of the configuration: none, the names of the three lists,
\* the default of config.Load, names outside the lists and a list name in
\* capitals or with the prefix of the Gemini API.
ModelNames ==
  Range(ClaudeModels) \cup Range(OpenAIModels) \cup Range(GeminiModels)
  \cup {ModelsPrefix \o m : m \in Range(GeminiModels)}
  \cup {<<>>,
        <<"c", "l", "a", "u", "d", "e", "-", "h", "a", "i", "k", "u", "-", "4", "-", "5", "-", "2", "0", "2", "5", "1", "0", "1", "5">>,
        <<"g", "p", "t", "-", "4", "o">>,
        <<"g", "p", "t", "-", "3">>,
        <<"G", "P", "T", "-", "5">>,
        <<"m", "o", "d", "e", "l", "s", "/", "g", "e", "m", "i", "n", "i", "-", "9">>,
        <<"l", "l", "a", "m", "a", "-", "3">>}

ClientCalls ==
  {Call(fn, <<key, model>>) :
     fn \in {"NewAnthropicClient", "NewOpenAIClient", "NewGeminiClient"},
     key \in ApiKeys, model \in ModelNames}

\* Names that carry the fragment of one family, in small or capital
\* letters, of two families, or of none.
FamilyNames ==
  {<<>>, <<"C", "l", "a", "u", "d", "e", "-", "3">>, <<"m", "y", "-", "G", "E", "M", "I", "N", "I">>, <<"c", "h", "a", "t", "G", "P", "T">>,
   <<"g", "p", "t", "-", "c", "l", "a", "u", "d", "e">>, <<"g", "e", "m", "i", "n", "i", "-", "c", "l", "a", "u", "d", "e">>, <<"g", "p", "t", "-", "g", "e", "m", "i", "n", "i">>,
   <<"l", "l", "a", "m", "a", "-", "3">>, <<"o", "3", "-", "m", "i", "n", "i">>}

NewClientCalls ==
  {Call("NewClient", <<model, key>>) :
     model \in ModelNames \cup FamilyNames, key \in ApiKeys}

PureNewClient ==
  Apply("NewClient", NewClient(call.args[1], call.args[2]))

\* Status codes of a response: the one the clients accept, two other
\* codes of the 2xx class and two error codes.
Statuses == {StatusOK, 201, 204, 401, 500}

Backends == {"anthropic", "gemini", "openai"}

\* Bodies: not JSON, an error envelope with and without a message, an
\* object without completion array, and completion arrays of no item, of
\* an item without text, of one and of two items.
Bodies ==
  {Body("garbage", "", <<>>), Body("error", "invalid x-api-key", <<>>),
   Body("error", "", <<>>), Body("object", "", <<>>),
   Body("completion", "", <<<<>>>>),
   Body("completion", "", <<<<>>, <<RenderRaw(FixBug, OffByOne)>>>>)}
  \cup {Body("completion", "", <<<<t>>>>) : t \in RawTexts}
  \cup {Body("completion", "", <<<<t>>, <<HEADER \o <<" ">> \o FixBug>>>>) : t \in RawTexts}

Responses ==
  {[err |-> e, status |-> 0, body |-> NoBody] : e \in {"send", "read"}}
  \cup {[err |-> "", status |-> st, body |-> b] : st \in Statuses, b \in Bodies}

GenerateCalls ==
  {Call("GenerateCommitMessage", <<backend, resp>>) :
     backend \in Backends, resp \in Responses}

PureGenerateCommitMessage ==
  Apply("GenerateCommitMessage", GenerateCommitMessage(call.args[1], call.args[2]))

\* What git ls-files prints: no file, one file, two files in both orders.
UntrackedLists ==
  {<<>>, FooTxt \o NL, FooTxt \o NL \o BarTxt \o NL, BarTxt \o NL \o FooTxt \o NL}

\* What reading a file gives: one line, two lines, a last line without
\* line feed, or an error.
FileContents ==
  FileReads \cup {[ok |-> TRUE, content |-> <<"a", "\n", "b", "\n">>],
                  [ok |-> TRUE, content |-> <<"a", "\n", "b">>]}

DiffCalls ==
  {Call(fn, <<tracked, untracked, read>>) :
     fn \in {"GetFullDiff", "PsFullDiff"}, tracked \in TrackedOutputs,
     untracked \in UntrackedLists, read \in [FileNames -> FileContents]}

PureGetFullDiff ==
  Apply("GetFullDiff", GetFullDiff(call.args[1], call.args[2], call.args[3]))

PurePsFullDiff ==
  Apply("PsFullDiff", PsFullDiff(call.args[1], call.args[2], call.args[3]))

\* The provider of the configuration: the three names, one in capitals,
\* an unknown one and none.
ProviderNames ==
  {<<"a", "n", "t", "h", "r", "o", "p", "i", "c">>, <<"g", "e", "m", "i", "n", "i">>, <<"o", "p", "e", "n", "a", "i">>, <<"O", "p", "e", "n", "A", "I">>, <<"g", "o", "o", "g", "l", "e">>, <<>>}

\* Where keys are stored: every variable and every keyring item, only the
\* AI_COMMIT_ variables, only the keyring, nothing.
KeyStores ==
  LET first == {"ANTHROPIC_API_KEY", "GEMINI_API_KEY", "OPENAI_API_KEY"}
      second == {"AI_COMMIT_ANTHROPIC_KEY", "AI_COMMIT_GEMINI_KEY", "AI_COMMIT_OPENAI_KEY"}
      items == {"anthropic_api_key", "gemini_api_key", "openai_api_key"}
  IN  {[env |-> first \cup second, ring |-> items], [env |-> second, ring |-> {}],
       [env |-> {}, ring |-> items], [env |-> {}, ring |-> {}]}

ConfigCalls ==
  {Call("NewClient(cfg.Model, cfg.GetAPIKey())", <<provider, model, store>>) :
     provider \in ProviderNames, model \in FamilyNames \cup {ConfigModel},
     store \in KeyStores}

\* runCommit: client, err := llm.NewClient(cfg.Model, cfg.GetAPIKey())
PureConfiguredClient ==
  Apply("NewClient(cfg.Model, cfg.GetAPIKey())",
        NewClient(call.args[2], GetAPIKey(call.args[1], call.args[3])))

\* What the user may leave in the editor besides the files of UserEdits:
\* the buffer as it was, a header of 73 letters, and the description moved
\* to an indented line of its own.
LoopEdits(current) ==
  LET content == EditContent(current) IN
  UserEdits(content, current)
  \cup {WithHeaderLine(content, Rep("a", MaxHeaderLen + 1)),
         HEADER \o <<" ">> \o current.Header \o NL \o DESCRIPTION \o NL
         \o <<" ", " ">> \o MoreLine \o NL}

\* The messages the loop of runCommit can hold: what ParseResponse returns
\* for a provider text, and what one edit round makes of it.
ParsedMessages ==
  LET texts == RawTexts \cup {HEADER \o <<" ">> \o Rep("a", MaxHeaderLen - 1) \o <<" ", "b">>}
  IN  {ParseResponse(t).msg : t \in {x \in texts : ParseResponse(x).ok}}

LoopMessages ==
  ParsedMessages \cup UNION {{EditResult(m, e) : e \in LoopEdits(m)} : m \in ParsedMessages}

EditCalls ==
  {Call("EditCommitMessage", <<current, edited>>) :
     current \in LoopMessages,
     edited \in UNION {LoopEdits(m) : m \in LoopMessages}}

PureEditCommitMessage ==
  Apply("EditCommitMessage", EditResult(call.args[1], call.args[2]))

PureNewAnthropicClient ==
  Apply("NewAnthropicClient", NewAnthropicClient(call.args[1], call.args[2]))

PureNewOpenAIClient ==
  Apply("NewOpenAIClient", NewOpenAIClient(call.args[1], call.args[2]))

PureNewGeminiClient ==
  Apply("NewGeminiClient", NewGeminiClient(call.args[1], call.args[2]))

PureInit ==
  /\ impl = "go" /\ inRepo = TRUE /\ apiKey = "sk-key"
  /\ pushFlag = FALSE /\ claspFlag = FALSE /\ wranglerFlag = FALSE /\ exportFlag = FALSE
  /\ pc = "apply"
  /\ NothingDone
  /\ \/ call \in TruncateCalls
     \/ call \in ParseCalls
     \/ call \in FormatCalls
     \/ call \in ClientCalls
     \/ call \in NewClientCalls
     \/ call \in GenerateCalls
     \/ call \in DiffCalls
     \/ call \in ConfigCalls
     \/ call \in EditCalls
  /\ ret = <<>>

PureNext ==
  \/ PureTruncateDiff
  \/ PurePsTruncate
  \/ PureParseResponse
  \/ PureFormat
  \/ PureNewAnthropicClient
  \/ PureNewOpenAIClient
  \/ PureNewGeminiClient
  \/ PureNewClient
  \/ PureGenerateCommitMessage
  \/ PureGetFullDiff
  \/ PurePsFullDiff
  \/ PureConfiguredClient
  \/ PureEditCommitMessage

PureSpec == PureInit /\ [][PureNext]_vars

\* ------------------------------------------------------------------------
\* Properties
\* ------------------------------------------------------------------------
ChoseYes == choice \in {"yes", "y"}
ChoseCancel == choice \in {"cancel", "c"}

Ran(op) == \E i \in DOMAIN effects : effects[i].op = op
Succeeded(op) == \E i \in DOMAIN effects : effects[i] = Effect(op, "ok")
SideOps == {"Push", "ClaspPush", "Deploy"}
Rank(op) == CASE op = "Push" -> 1 [] op = "ClaspPush" -> 2 [] op = "Deploy" -> 3 [] OTHER -> 0

\* The state of the interaction loop a run is in.
LoopState ==
  CASE pc = "present" -> "Presenting"
    [] pc = "edit" -> "Editing"
    [] result = "Cancelled" -> "Cancelled"
    [] result \in {"PromptFailed", "EditFailed"} -> "Aborted"
    [] \/ pc \in {"stage", "commit", "push", "claspPush", "deploy"}
       \/ result \in {"StageFailure", "CommitFailure", "CommitException", "Done"} -> "Accepted"
    [] OTHER -> "Outside"

\* The text Format yields, written on the two fields of a message.
CommitText(h, d) == IF d = <<>> THEN h ELSE h \o <<"\n", "\n">> \o d

\* C1: StageAll and Commit run only after the user chose yes on the message
\* presented; nothing is staged or committed while the loop is presenting
\* or editing, nor after a cancel.
C1_StageOnlyAfterAccept ==
  /\ effects # <<>> => ChoseYes
  /\ LoopState \in {"Presenting", "Editing", "Cancelled"} => effects = <<>>

C1_Witness ==
  /\ edits >= 1 /\ ChoseYes
  /\ Len(effects) >= 2 /\ effects[1].op = "StageAll" /\ effects[2].op = "Commit"

\* C2: once the user chose cancel, after any number of edit rounds, the run
\* is over and no command with a side effect was run.
C2_CancelHasNoSideEffect ==
  ChoseCancel => pc = "done" /\ result = "Cancelled" /\ effects = <<>>

C2_Witness == ChoseCancel /\ edits >= 2 /\ result = "Cancelled"

\* C3 as stated: from Presenting only Accepted, Editing and Cancelled
\* follow, every Editing step returns to Presenting, and the loop is left
\* only in Accepted or Cancelled.
C3_AsStated ==
  [][/\ LoopState = "Presenting" =>
          LoopState' \in {"Presenting", "Accepted", "Editing", "Cancelled"}
     /\ LoopState = "Editing" => LoopState' \in {"Editing", "Presenting"}]_vars

\* C3 amended: the loop is the machine Presenting -> {Accepted, Editing,
\* Cancelled}, Editing -> Presenting, with one more exit: when the prompt
\* or the edit step itself fails the run aborts with that error, having
\* staged and committed nothing; Accepted, Cancelled and the abort are
\* final.
C3_LoopMachine ==
  [][/\ LoopState = "Presenting" =>
          LoopState' \in {"Presenting", "Accepted", "Editing", "Cancelled", "Aborted"}
     /\ LoopState = "Editing" => LoopState' \in {"Editing", "Presenting", "Aborted"}
     /\ LoopState \in {"Accepted", "Cancelled", "Aborted"} => LoopState' = LoopState
     /\ LoopState' = "Aborted" => effects' = <<>>]_vars

C3_Witness == result = "EditFailed" /\ edits >= 1 /\ LoopState = "Aborted"

EditedHeaderEmpty ==
  IF impl = "go" THEN EditFields(editedContent).header = <<>>
  ELSE ~PsField(Split(editedContent, "\n"), HEADER).truthy
EditedDescriptionEmpty ==
  IF impl = "go" THEN EditFields(editedContent).description = <<>>
  ELSE ~PsField(Split(editedContent, "\n"), DESCRIPTION).truthy

\* C5: after an edit round, a field the edited text leaves empty keeps the
\* value it had before the round, for the header and for the description.
C5_FieldByFieldFallback ==
  edits >= 1 =>
    /\ EditedHeaderEmpty => currentMessage.Header = editCurrent.Header
    /\ EditedDescriptionEmpty => currentMessage.Description = editCurrent.Description

\* The run answered [edit, yes], and the edit rewrote only the header line
\* of the file it was given.
HeaderOnlyEdit(h) ==
  /\ impl = "go" /\ edits = 1 /\ ChoseYes /\ Ran("Commit")
  /\ editedContent = WithHeaderLine(EditContent(editCurrent), h)

\* C6: after [edit, yes] with an edit of the header line only, the commit
\* text carries the new header and the description the parser produced.
C6_HeaderEditKeepsDescription ==
  \A h \in NewHeaders :
    HeaderOnlyEdit(h) =>
      /\ currentMessage = CommitMessage(h, editCurrent.Description)
      /\ finalMessage = CommitText(h, editCurrent.Description)

C6_Witness ==
  /\ \E h \in NewHeaders : HeaderOnlyEdit(h)
  /\ editCurrent.Description = OffByOne
  /\ Succeeded("Commit")

\* C7: a run creates at most one commit, and its text is the text of the
\* message presented last.
C7_MessageConsumedOnce ==
  /\ Cardinality({i \in DOMAIN effects : effects[i].op = "Commit"}) <= 1
  /\ (impl = "go" /\ Ran("Commit")) =>
        finalMessage = CommitText(presented.Header, presented.Description)

C7_Witness ==
  /\ impl = "go" /\ Succeeded("Commit") /\ edits >= 1
  /\ presented.Description = <<>> /\ presented # editCurrent

\* C8: every side action runs after a successful stage and a successful
\* commit, and the side actions run in the order push, clasp push, deploy.
C8_SideActionsAfterCommit ==
  \A i \in DOMAIN effects :
    effects[i].op \in SideOps =>
      /\ \E j \in 1..(i - 1) : effects[j] = Effect("Commit", "ok")
      /\ \A j \in 1..(i - 1) :
           /\ effects[j].op \in {"StageAll", "Commit"} => effects[j].res = "ok"
           /\ effects[j].op \in SideOps => Rank(effects[j].op) < Rank(effects[i].op)

\* C9: when the commit has succeeded, the run ends successfully with every
\* requested side action attempted, whichever of them failed.
C9_SideActionFailureIsLocal ==
  (pc = "done" /\ Succeeded("Commit")) =>
    /\ result = "Done"
    /\ pushFlag => Ran("Push")
    /\ claspFlag => Ran("ClaspPush")
    /\ wranglerFlag => Ran("Deploy")

\* No line of the text starts, once trimmed, with HEADER:.
NoHeaderLine(text) ==
  LET lines == Split(text, "\n") IN
  \A i \in DOMAIN lines : ~HasPrefix(TrimSpace(lines[i]), HEADER)

\* C10: a run of the Go command that ends with NotARepository,
\* MissingAPIKey or NoHeaderFound has changed nothing, and nothing is ever
\* changed outside a repository, without a key or on output without header;
\* outside a repository runCommit ends with NotARepository.
C10_EarlyErrorsMutateNothing ==
  impl = "go" =>
    /\ result \in {"NotARepository", "MissingAPIKey", "NoHeaderFound"} =>
         pc = "done" /\ effects = <<>>
    /\ effects # <<>> => inRepo /\ apiKey # "" /\ ~NoHeaderLine(rawText)
    /\ (pc = "done" /\ ~inRepo /\ FlagsParse) => result = "NotARepository"

C10_Witness ==
  impl = "go" /\ result = "NoHeaderFound" /\ NoHeaderLine(rawText) /\ rawText # <<>>

\* Return sites that report a failure: runCommit returns a non-nil error,
\* the PowerShell function writes its message in red.
IsError(r) ==
  r \notin {"", "ClaspNotPulled", "NoChanges", "Exported", "Cancelled", "Done"}

\* C11: when diff collection succeeds with an empty diff, that very step
\* ends the run at the "no changes" return, which is not an error return,
\* with no client constructed, no request sent, no "Use this message?"
\* prompt answered, no edit round and no mutating command run.
C11_EmptyDiffExitsEarly ==
  [][(pc = "diff" /\ pc' # "diff" /\ result' # "DiffFailed" /\ diff' = <<>>)
       => /\ pc' = "done" /\ result' = "NoChanges" /\ ~IsError(result')
          /\ client' = "nil" /\ requests' = 0
          /\ choice' = "" /\ edits' = 0 /\ presented' = NilMessage
          /\ effects' = <<>> /\ ~committed']_vars

C11_Witness ==
  /\ pc = "done" /\ result = "NoChanges" /\ diff = <<>>
  /\ client = "nil" /\ requests = 0 /\ effects = <<>>

CallFailed == result \in {"RemoteTransportFailure", "RemoteAPIError", "EmptyResponse"}

\* C12: a run sends at most one request to a generation endpoint: a run
\* that ended on a failed call has sent exactly one, and so has a run that
\* went through edit rounds.
C12_AtMostOneRequest ==
  /\ requests \in {0, 1}
  /\ CallFailed => requests = 1
  /\ edits > 0 => requests = 1

C12_Witness ==
  pc = "done" /\ result = "Done" /\ edits = MaxEdits /\ requests = 1

\* C14: whenever the diff put into the request was cut to the bound, the
\* truncation note has been written in the same run.
C14_TruncationIsWarned == truncated => warned

\* What the claim gives for a text and a bound when the two differ in length.
Cut(text, bound) ==
  IF Len(text) < bound THEN text
  ELSE SubSeq(text, 1, bound) \o TruncationMarker

\* C13: a text shorter than the bound comes back unmodified, a longer one
\* as its first `bound` characters followed by the truncation marker.
C13_TruncateByCharacters ==
  LET text == call.args[1]
      bound == call.args[2]
  IN  /\ (Returned("TruncateDiff") /\ Len(text) # bound) => ret = Utf8(Cut(text, bound))
      /\ (Returned("PsTruncate") /\ Len(text) # bound)
           => /\ ret = Cut(text, bound)
              /\ Len(text) > bound => Len(ret) = bound + Len(TruncationMarker)

\* The values that the lines of text carry after marker, in order.
Values(text, marker) ==
  LET marked == SelectSeq(Split(text, "\n"), LAMBDA l : HasPrefix(TrimSpace(l), marker))
  IN  [i \in 1..Len(marked) |-> TrimSpace(TrimPrefix(TrimSpace(marked[i]), marker))]

First(values) == IF values = <<>> THEN <<>> ELSE values[1]
Last(values) == IF values = <<>> THEN <<>> ELSE values[Len(values)]
Capped(h) == IF Len(h) > MaxHeaderLen THEN SubSeq(h, 1, MaxHeaderLen) ELSE h

\* C15, as stated: the parsed Header is the value of the first HEADER: line
\* and the parsed Description the value of the first DESCRIPTION: line.
C15_FirstLineWins ==
  (Returned("ParseResponse") /\ ret.ok)
    => LET text == Utf8(call.args[1]) IN
       /\ ret.msg.Header = Capped(First(Values(text, HEADER)))
       /\ ret.msg.Description = First(Values(text, DESCRIPTION))

\* C15, amended: the parsed Header is the value of the last HEADER: line and
\* the parsed Description the value of the last DESCRIPTION: line, and the
\* parse fails exactly when that header value is empty; lines with neither
\* marker play no part.
C15_LastLineWins ==
  Returned("ParseResponse")
    => LET text == Utf8(call.args[1]) IN
       /\ ret.ok = (Last(Values(text, HEADER)) # <<>>)
       /\ ret.ok => /\ ret.msg.Header = Capped(Last(Values(text, HEADER)))
                    /\ ret.msg.Description = Last(Values(text, DESCRIPTION))

C15_Witness ==
  /\ Returned("ParseResponse") /\ ret.ok
  /\ LET hs == Values(call.args[1], HEADER)
         ds == Values(call.args[1], DESCRIPTION)
     IN  /\ Len(hs) = 2 /\ hs[1] # hs[2] /\ ret.msg.Header = hs[2]
         /\ Len(ds) = 1 /\ ret.msg.Description = ds[1]

\* C16: when no line of the text begins, after trimming, with HEADER:,
\* ParseResponse returns the no-header error and no CommitMessage.
C16_NoHeaderNoMessage ==
  (Returned("ParseResponse") /\ Values(Utf8(call.args[1]), HEADER) = <<>>)
    => ~ret.ok /\ ret.msg = NilMessage

C16_Witness ==
  /\ Returned("ParseResponse") /\ ~ret.ok
  /\ Values(call.args[1], HEADER) = <<>>
  /\ Values(call.args[1], DESCRIPTION) = <<OffByOne>>

\* The header text of the response, in characters.
HeaderText == Last(Values(call.args[1], HEADER))

\* C17: a header of at most 72 characters is returned unchanged, a longer
\* one as its first 72 characters, and a parsed Header has 1 to 72
\* characters.
C17_HeaderCappedByCharacters ==
  (Returned("ParseResponse") /\ ret.ok)
    => /\ ret.msg.Header = Utf8(Capped(HeaderText))
       /\ Len(ret.msg.Header) \in 1..MaxHeaderLen

\* C18: for a text with both markers, rendering the parsed message in the
\* two-line format and parsing it again yields the same message.
C18_ParseIdempotent ==
  (/\ Returned("ParseResponse") /\ ret.ok
   /\ Values(call.args[1], HEADER) # <<>>
   /\ Values(call.args[1], DESCRIPTION) # <<>>)
    => ParseResponse(RenderRaw(ret.msg.Header, ret.msg.Description)) = ret

Scenario2 == RenderRaw(FixBug, OffByOne)
FixBugText ==
  <<"F", "i", "x", " ", "b", "u", "g", "\n", "\n", "R", "e", "s", "o", "l", "v", "e", "s", " ", "o", "f", "f", "-", "b", "y", "-", "o", "n", "e">>

\* C19: Format yields the Header alone when the Description is empty and
\* otherwise the Header, two line feeds and the Description; the text
\* "HEADER: Fix bug\nDESCRIPTION: Resolves off-by-one\n" parses to these two
\* fields, which format to "Fix bug\n\nResolves off-by-one".
C19_FormatOfMessage ==
  /\ Returned("Format")
       => LET h == call.args[1].Header
              d == call.args[1].Description
          IN  IF d = <<>> THEN ret = h
              ELSE /\ Len(ret) = Len(h) + 2 + Len(d)
                   /\ SubSeq(ret, 1, Len(h)) = h
                   /\ ret[Len(h) + 1] = "\n" /\ ret[Len(h) + 2] = "\n"
                   /\ SubSeq(ret, Len(h) + 3, Len(ret)) = d
  /\ (Returned("ParseResponse") /\ call.args[1] = Scenario2)
       => ret = [ok |-> TRUE, msg |-> CommitMessage(FixBug, OffByOne)]
  /\ (Returned("Format") /\ call.args[1] = CommitMessage(FixBug, OffByOne))
       => ret = FixBugText

C19_Witness ==
  /\ Returned("Format") /\ call.args[1] = CommitMessage(FixBug, OffByOne)
  /\ ret = FixBugText

Known(models) == call.args[2] \in Range(models)

NothingCollected ==
  /\ diff = <<>> /\ client = "nil" /\ requests = 0
  /\ choice = "" /\ effects = <<>> /\ written = {}

\* C24: a run that ended on a failed remote call (the request could not be
\* sent, or the response was not a success) has written the request
\* payload to debug_failed_request.json.
C24_FailedRequestIsSaved ==
  result \in {"RemoteTransportFailure", "RemoteAPIError"}
    => pc = "done" /\ "debug_failed_request.json" \in written

\* C25: a run started with the export flag ends with the diff written to
\* git-diff-export.txt, unless a check that precedes the export ended it,
\* and it has sent no request, answered no prompt and run no mutating
\* command.
C25_ExportOnly ==
  (exportFlag /\ pc = "done") =>
    /\ \/ result = "Exported" /\ "git-diff-export.txt" \in written
       \/ result \in {"NotARepository", "NotClaspProject", "ClaspNotPulled",
                      "ConfirmFailed", "NotWranglerProject", "UnknownCarrier",
                      "MissingAPIKey", "DiffFailed", "NoChanges"}
    /\ requests = 0 /\ choice = "" /\ effects = <<>>

\* C26: with the clasp flag, as long as .clasp.json has not been found and
\* the pull has not been confirmed, no diff is collected, no client is
\* constructed, no request is sent, no prompt is answered, nothing is
\* written and no mutating command is run, and the run can only end at one
\* of the returns that precede the diff collection; likewise with the
\* wrangler flag as long as wrangler.toml has not been found.
C26_ChecksComeFirst ==
  /\ (claspFlag /\ ~({".clasp.json", "pulled"} \subseteq verified)) =>
       /\ NothingCollected
       /\ pc = "done" => result \in {"UnknownFlag", "NotARepository", "NotClaspProject",
                                      "ConfirmFailed", "ClaspNotPulled"}
  /\ (wranglerFlag /\ "wrangler.toml" \notin verified) =>
       /\ NothingCollected
       /\ pc = "done" => result \in {"UnknownFlag", "NotARepository", "NotClaspProject",
                                      "ClaspNotPulled", "NotWranglerProject"}

C26_Witness ==
  /\ claspFlag /\ pc = "done" /\ result = "ClaspNotPulled"
  /\ verified = {".clasp.json"} /\ NothingCollected

HasFragment(fragment) ==
  Contains(ToLower(call.args[1]), fragment)

\* C21: with a key, NewClient gives the Anthropic client for a name that
\* contains "claude" in any case, the Gemini client for one that contains
\* "gemini", the OpenAI client for one that contains "gpt", and the Gemini
\* client for a name with none of them, the empty name included.
C21_FragmentGivesBackend ==
  (Returned("NewClient") /\ call.args[2] # "") =>
    /\ ret.ok
    /\ HasFragment(<<"c", "l", "a", "u", "d", "e">>) => ret.backend = "anthropic"
    /\ HasFragment(<<"g", "e", "m", "i", "n", "i">>) => ret.backend = "gemini"
    /\ HasFragment(<<"g", "p", "t">>) => ret.backend = "openai"
    /\ (~HasFragment(<<"c", "l", "a", "u", "d", "e">>) /\ ~HasFragment(<<"g", "e", "m", "i", "n", "i">>)
          /\ ~HasFragment(<<"g", "p", "t">>)) => ret.backend = "gemini"

\* C21, amended: the fragments are looked for in the order "claude",
\* "gemini", "gpt" and the first one found decides; a name with none of
\* them gives the Gemini client; the key does not enter the choice.
C21_FirstFragmentGivesBackend ==
  (Returned("NewClient") /\ call.args[2] # "") =>
    /\ ret.ok /\ ret.key = call.args[2]
    /\ HasFragment(<<"c", "l", "a", "u", "d", "e">>) => ret.backend = "anthropic"
    /\ (HasFragment(<<"g", "e", "m", "i", "n", "i">>) /\ ~HasFragment(<<"c", "l", "a", "u", "d", "e">>))
         => ret.backend = "gemini"
    /\ (HasFragment(<<"g", "p", "t">>) /\ ~HasFragment(<<"c", "l", "a", "u", "d", "e">>)
          /\ ~HasFragment(<<"g", "e", "m", "i", "n", "i">>)) => ret.backend = "openai"
    /\ (~HasFragment(<<"c", "l", "a", "u", "d", "e">>) /\ ~HasFragment(<<"g", "e", "m", "i", "n", "i">>)
          /\ ~HasFragment(<<"g", "p", "t">>)) => ret.backend = "gemini"

C21_Witness ==
  /\ Returned("NewClient") /\ call.args[2] # ""
  /\ HasFragment(<<"g", "e", "m", "i", "n", "i">>) /\ HasFragment(<<"c", "l", "a", "u", "d", "e">>) /\ ret.backend = "anthropic"

\* The response of a call of GenerateCommitMessage that was received.
Received ==
  Returned("GenerateCommitMessage") /\ call.args[2].err = ""

\* C22: a response outside 200..299 whose body is an error envelope with a
\* message yields the API error with exactly that message and without
\* status or body; one whose body is not JSON yields the API error with
\* the status and the body; a response in 200..299 never yields the API
\* error.
C22_ErrorEnvelope ==
  Received =>
    LET resp == call.args[2] IN
    /\ (resp.status \notin 200..299 /\ resp.body.kind = "error" /\ resp.body.message # "")
         => /\ ret.kind = "APIError" /\ ret.message = resp.body.message
            /\ ret.status = 0 /\ ret.body = NoBody
    /\ (resp.status \notin 200..299 /\ resp.body.kind = "garbage")
         => /\ ret.kind = "APIError" /\ ret.message = ""
            /\ ret.status = resp.status /\ ret.body = resp.body
    /\ resp.status \in 200..299 => ret.kind # "APIError"

\* C23: a response with status 200 whose body decodes and whose
\* completion array is empty or absent (for Gemini also when the first
\* candidate has no parts) yields the empty-response error, and
\* ParseResponse is not called.
C23_EmptyCompletion ==
  (Received /\ call.args[2].status = StatusOK /\ call.args[2].body.kind # "garbage") =>
    LET items == call.args[2].body.items IN
    /\ (items = <<>> \/ (call.args[1] = "gemini" /\ items[1] = <<>>))
         => ret.kind = "EmptyResponse" /\ ret.parsed = <<>> /\ ~ret.suggestion.ok
    /\ ret.kind = "EmptyResponse" => (items = <<>> \/ items[1] = <<>>)
    /\ ret.parsed # <<>> => items # <<>> /\ ret.parsed[1] \in {<<>>} \cup Range(items[1])

C23_Witness ==
  /\ Received /\ call.args[1] = "gemini" /\ call.args[2].status = StatusOK
  /\ call.args[2].body.items # <<>> /\ call.args[2].body.items[1] = <<>>
  /\ ret.kind = "EmptyResponse"

\* The position of a line in a sequence of lines, 0 when it is not there.
LineIndex(lines, line) ==
  IF \E i \in DOMAIN lines : lines[i] = line
  THEN CHOOSE i \in DOMAIN lines : lines[i] = line
  ELSE 0

\* The header line of an untracked file in the collected diff.
NewFileLine(file) ==
  SubSeq(NewFilePrefix, 2, Len(NewFilePrefix)) \o file
  \o SubSeq(NewFileSuffix, 1, Len(NewFileSuffix) - 1)

KeyOwner(key) ==
  CASE key \in {"ANTHROPIC_API_KEY", "AI_COMMIT_ANTHROPIC_KEY", "anthropic_api_key"} -> "anthropic"
    [] key \in {"GEMINI_API_KEY", "AI_COMMIT_GEMINI_KEY", "gemini_api_key"} -> "gemini"
    [] key \in {"OPENAI_API_KEY", "AI_COMMIT_OPENAI_KEY", "openai_api_key"} -> "openai"
    [] OTHER -> "none"

\* C28: whenever runCommit obtains a client from the configured provider
\* and model, the key the client holds is a key of the provider whose
\* back-end the client is.
C28_KeyMatchesBackend ==
  (Returned("NewClient(cfg.Model, cfg.GetAPIKey())") /\ ret.ok)
    => KeyOwner(ret.key) = ret.backend

\* A header that is one non-empty line of at most 72 characters.
HeaderInBounds(header) ==
  /\ Len(header) \in 1..MaxHeaderLen
  /\ \A i \in DOMAIN header : header[i] # "\n"

\* C29: an edit round on a message whose Header is one non-empty line of
\* at most 72 characters returns a message whose Header is again one
\* non-empty line of at most 72 characters, whatever the user left in the
\* editor.
C29_HeaderStaysInBounds ==
  (Returned("EditCommitMessage") /\ HeaderInBounds(call.args[1].Header))
    => HeaderInBounds(ret.Header)

\* C30: an edit round in which the file is saved as EditCommitMessage
\* wrote it returns the message it was called with.
C30_UnchangedEditIsNoOp ==
  (Returned("EditCommitMessage") /\ call.args[2] = EditContent(call.args[1]))
    => ret = call.args[1]
====
